---- MODULE Spec2Model ----
(***************************************************************************)
(* Model of custref_to_sql/main.py: the field types, the two tables, the   *)
(* record state machine, the aggregator callbacks, the SQL emitter and     *)
(* the read loop of main.                                                  *)
(*                                                                         *)
(* A str is a sequence of one-character strings, a dict is a function      *)
(* whose DOMAIN is its key set, a list is a sequence.  Column names and    *)
(* dict keys are plain strings: they are never taken apart.                *)
(***************************************************************************)
EXTENDS Integers, Sequences, FiniteSets, TLC

VARIABLES state, action, pc, err, output, create, rows, calls, value, literal, ftype,
          args, result

vars == <<state, action, pc, err, output, create, rows, calls, value, literal, ftype, args, result>>

(* ------------------------------ bounds --------------------------------- *)

\* longest input (number of rows) the reader delivers
MaxRows == 7
\* most rows swallowed by the wildcard of __initial__ before the header
MaxSkip == 1
\* longest cell text in the field round trips
MaxLen == 3
\* most records (customers plus references) in a state handed to the emitter
MaxRecords == 4

(* ------------------------------ helpers -------------------------------- *)

EmptyDict == <<>>

Truthy(d) == DOMAIN d # {}

Q == "'"

RECURSIVE Flatten(_)
Flatten(ss) == IF ss = <<>> THEN <<>> ELSE Head(ss) \o Flatten(Tail(ss))

UpperLetters == <<"A","B","C","D","E","F","G","H","I","J","K","L","M",
                  "N","O","P","Q","R","S","T","U","V","W","X","Y","Z">>
LowerLetters == <<"a","b","c","d","e","f","g","h","i","j","k","l","m",
                  "n","o","p","q","r","s","t","u","v","w","x","y","z">>

\* str.lower
lower(s) ==
    [i \in 1..Len(s) |->
        IF \E j \in 1..26 : UpperLetters[j] = s[i]
        THEN LowerLetters[CHOOSE j \in 1..26 : UpperLetters[j] = s[i]]
        ELSE s[i]]

Digits == <<"0","1","2","3","4","5","6","7","8","9">>

IsDigit(c) == \E j \in 1..10 : Digits[j] = c

DigitVal(c) == (CHOOSE j \in 1..10 : Digits[j] = c) - 1

RECURSIVE DigitsVal(_, _)
DigitsVal(s, acc) ==
    IF s = <<>> THEN acc ELSE DigitsVal(Tail(s), acc * 10 + DigitVal(Head(s)))

RECURSIVE NatStr(_)
NatStr(n) == IF n < 10 THEN <<Digits[n + 1]>>
             ELSE NatStr(n \div 10) \o <<Digits[(n % 10) + 1]>>

\* str(int)
str(n) == IF n < 0 THEN <<"-">> \o NatStr(0 - n) ELSE NatStr(n)

\* the part of an int literal after its sign
Unsigned(s) == IF s # <<>> /\ Head(s) \in {"+", "-"} THEN Tail(s) ELSE s

\* int(value) raises ValueError (the cells modelled hold no white space)
int_raises(s) ==
    \/ Unsigned(s) = <<>>
    \/ \E i \in 1..Len(Unsigned(s)) : ~IsDigit(Unsigned(s)[i])

\* int(value)
int(s) == IF s # <<>> /\ Head(s) = "-" THEN 0 - DigitsVal(Unsigned(s), 0)
          ELSE DigitsVal(Unsigned(s), 0)

\* merge(d1, d2): the later dict wins
merge(d1, d2) ==
    [k \in DOMAIN d1 \cup DOMAIN d2 |-> IF k \in DOMAIN d2 THEN d2[k] ELSE d1[k]]

\* dict.update with a list of (key, value) pairs, as merge does with the extras
PairsAsDict(ps) ==
    [k \in {ps[i][1] : i \in 1..Len(ps)} |->
        ps[CHOOSE i \in 1..Len(ps) :
              ps[i][1] = k /\ \A j \in (i + 1)..Len(ps) : ps[j][1] # k][2]]

(* ---------------------------- field types ------------------------------ *)

quote_sql_string_nodouble(v) == v

quote_sql_string(v) ==
    Flatten([i \in 1..Len(v) |-> IF v[i] = Q THEN <<Q, Q>> ELSE <<v[i]>>])

deserialize_text(v) == v

serialize_text(v) == <<Q>> \o quote_sql_string(v) \o <<Q>>

Yes == <<"y", "e", "s">>

deserialize_yesno(v) == lower(v) = Yes

serialize_yesno(v) == str(IF v THEN 1 ELSE 0)

deserialize_integer(v) == int(v)

serialize_integer(v) == str(v)

text == [sql_type |-> "TEXT", serialize |-> "serialize_text",
         deserialize |-> "deserialize_text"]

integer == [sql_type |-> "INTEGER", serialize |-> "serialize_integer",
            deserialize |-> "deserialize_integer"]

yesno == [sql_type |-> "INTEGER", serialize |-> "serialize_yesno",
          deserialize |-> "deserialize_yesno"]

no_sql(cls) == [cls EXCEPT !.serialize = "None"]

no_csv(cls) == [cls EXCEPT !.deserialize = "None"]

is_sql(ft) == ft.sql_type # "None" /\ ft.serialize # "None"

is_csv(ft) == ft.deserialize # "None"

\* col.field_type.serialize(v)
Serialize(ft, v) ==
    CASE ft.serialize = "serialize_text" -> serialize_text(v)
      [] ft.serialize = "serialize_integer" -> serialize_integer(v)
      [] ft.serialize = "serialize_yesno" -> serialize_yesno(v)

\* col.field_type.deserialize(v) raises
DeserializeRaises(ft, v) ==
    ft.deserialize = "deserialize_integer" /\ int_raises(v)

\* col.field_type.deserialize(v)
Deserialize(ft, v) ==
    CASE ft.deserialize = "deserialize_text" -> deserialize_text(v)
      [] ft.deserialize = "deserialize_integer" -> deserialize_integer(v)
      [] ft.deserialize = "deserialize_yesno" -> deserialize_yesno(v)

(* ------------------------------- schema -------------------------------- *)

Column(name, field_type) == [name |-> name, field_type |-> field_type]

Table(name, columns, foreign_keys) ==
    [name |-> name, columns |-> columns, foreign_keys |-> foreign_keys]

CUST_TABLE ==
    Table("customers",
          <<Column("record_type", no_sql(text)),
            Column("customer_code", text),
            Column("name", text),
            Column("name_extra", text),
            Column("address_number", text),
            Column("address_line_1", text),
            Column("address_line_2", text),
            Column("address_line_3", text),
            Column("address_line_4", text),
            Column("address_line_5", text),
            Column("contact_name", text),
            Column("contact_extra", text),
            Column("language_code", text),
            Column("language", text),
            Column("headquarter", yesno),
            Column("headquarter_code", text),
            Column("telephone", text),
            Column("mobile_phone", text),
            Column("insert_date", no_csv(text)),
            Column("insert_time", no_csv(text))>>,
          <<>>)

REF_TABLE ==
    Table("customer_references",
          <<Column("record_type", no_sql(text)),
            Column("reference_identifier", text),
            Column("length", integer),
            Column("mandatory", yesno),
            Column("numeric_only", yesno),
            Column("folf_start_position", integer),
            Column("folf_length", integer),
            Column("print_on_invoice", yesno),
            Column("check_type", text),
            Column("send_to_crs", yesno),
            Column("validation_mask", text),
            Column("internal_name", text),
            Column("customer_reference_desc", text),
            Column("dbi_connector", text),
            Column("dbi_connector_desc", text),
            Column("alphabetic_only", yesno),
            Column("no_special_characters", yesno),
            Column("only_capital_letters", yesno),
            Column("minimum_length", integer),
            Column("reference_type", text),
            Column("insert_date", no_csv(text)),
            Column("insert_time", no_csv(text))>>,
          <<Column("customer_code", text)>>)

DATA_TYPE_HEADERS == [CUST |-> CUST_TABLE, REF |-> REF_TABLE]

only_sql_columns(t) == SelectSeq(t.columns, LAMBDA c : is_sql(c.field_type))

only_csv_columns(t) == SelectSeq(t.columns, LAMBDA c : is_csv(c.field_type))

create_sql_no_fk(t) ==
    LET cols == only_sql_columns(t)
    IN [kind |-> "CREATE", table |-> t.name,
        cols |-> [i \in 1..Len(cols) |-> <<cols[i].name, cols[i].field_type.sql_type>>]]

create_sql(t) ==
    LET cols == only_sql_columns(t) \o t.foreign_keys
    IN [kind |-> "CREATE", table |-> t.name,
        cols |-> [i \in 1..Len(cols) |-> <<cols[i].name, cols[i].field_type.sql_type>>]]

insert_columns_all_fk(t, foreign_keys) == only_sql_columns(t) \o t.foreign_keys

\* the columns insert_sql lists; foreign_keys = EmptyDict stands for None or {}
insert_columns(t, foreign_keys) ==
    only_sql_columns(t) \o
    (IF Truthy(foreign_keys)
     THEN SelectSeq(t.foreign_keys, LAMBDA c : c.name \in DOMAIN foreign_keys)
     ELSE <<>>)

\* row[col.name] raises KeyError for some listed column
insert_sql_raises(t, row, foreign_keys) ==
    LET columns == insert_columns(t, foreign_keys)
        keys == DOMAIN row \cup DOMAIN foreign_keys
    IN \E i \in 1..Len(columns) : columns[i].name \notin keys

insert_sql(t, row, foreign_keys) ==
    LET columns == insert_columns(t, foreign_keys)
        r == merge(row, foreign_keys)
    IN [kind |-> "INSERT", table |-> t.name,
        cols |-> [i \in 1..Len(columns) |-> columns[i].name],
        data |-> [i \in 1..Len(columns) |->
                     Serialize(columns[i].field_type, r[columns[i].name])]]

Min(a, b) == IF a < b THEN a ELSE b

parse_csv_raises_strict(t, data) ==
    LET cols == only_csv_columns(t)
    IN \/ Len(data) < Len(cols)
       \/ \E i \in 1..Min(Len(cols), Len(data)) :
              DeserializeRaises(cols[i].field_type, data[i])

\* some cell paired with a column fails to deserialize
parse_csv_raises(t, data) ==
    LET cols == only_csv_columns(t)
    IN \E i \in 1..Min(Len(cols), Len(data)) :
           DeserializeRaises(cols[i].field_type, data[i])

parse_csv(t, data) ==
    LET cols == only_csv_columns(t)
        n == Min(Len(cols), Len(data))
    IN [k \in {cols[i].name : i \in 1..n} |->
           LET i == CHOOSE j \in 1..n :
                       cols[j].name = k /\ \A m \in (j + 1)..n : cols[m].name # k
           IN Deserialize(cols[i].field_type, data[i])]

(* ------------------------------ the input ------------------------------ *)

e == <<>>

\* how each state name, and the wildcard, is spelled in the first cell of a row
Spell ==
    [n \in {"__initial__", "H", "S", "H_CUST", "CUST", "H_REF", "REF", "MEDIUM",
            "__final__", "*"} |->
        CASE n = "__initial__" -> <<"_","_","i","n","i","t","i","a","l","_","_">>
          [] n = "H" -> <<"H">>
          [] n = "S" -> <<"S">>
          [] n = "H_CUST" -> <<"H","_","C","U","S","T">>
          [] n = "CUST" -> <<"C","U","S","T">>
          [] n = "H_REF" -> <<"H","_","R","E","F">>
          [] n = "REF" -> <<"R","E","F">>
          [] n = "MEDIUM" -> <<"M","E","D","I","U","M">>
          [] n = "__final__" -> <<"_","_","f","i","n","a","l","_","_">>
          [] n = "*" -> <<"*">>]

D1 == <<"d","1">>
T1 == <<"t","1">>
D2 == <<"d","2">>
T2 == <<"t","2">>
C001 == <<"C","0","0","1">>
C002 == <<"C","0","0","2">>
R1 == <<"R","1">>
R2 == <<"R","2">>

HRow(d, t) == <<Spell["H"], e, e, e, e, e, e, d, t>>

CustRow(code, name, hq) ==
    <<Spell["CUST"], code, name, e, e, e, e, e, e, e, e, e, e, e, hq, e, e, e>>

RefRow(id, length, mandatory) ==
    <<Spell["REF"], id, length, mandatory, e, <<"0">>, <<"0">>, e, e, e, e, e, e,
      e, e, e, e, e, <<"1">>, e>>

HRows == {HRow(D1, T1), HRow(D2, T2), <<Spell["H"]>>}

CustRows == {CustRow(C001, <<"O", Q, "B">>, <<"Y","e","s">>),
             CustRow(C002, <<"A">>, <<"n","o">>),
             <<Spell["CUST"], C001>>}

RefRows == {RefRow(R1, <<"5">>, <<"y","e","s">>),
            RefRow(R2, <<"0","7">>, <<"N","o">>),
            RefRow(R1, <<"x">>, e),
            <<Spell["REF"], R1>>}

OtherRows == {<<Spell[n]>> : n \in {"S", "H_CUST", "H_REF", "MEDIUM", "*"}} \cup {<<>>}

\* the rows csv.reader may deliver
Rows == HRows \cup CustRows \cup RefRows \cup OtherRows

\* the rows it may deliver ahead of the first header row
LeadRows == HRows \cup {CustRow(C001, <<"O", Q, "B">>, <<"Y","e","s">>),
                       RefRow(R1, <<"5">>, <<"y","e","s">>),
                       <<Spell["MEDIUM"]>>, <<Spell["*"]>>, <<>>}

IsHeader(data) == data # <<>> /\ data[1] = Spell["H"]

\* the rows that may follow the rows rs
NextRows(rs) == IF \E i \in 1..Len(rs) : IsHeader(rs[i]) THEN Rows ELSE LeadRows

(* --------------------------- processing state -------------------------- *)

NoError == [exc |-> "none", raised_by |-> "none"]

Raise(exc, by) == [exc |-> exc, raised_by |-> by]

\* state.get(k) with None read as the empty (falsy) value
Get(d, k, default) == IF k \in DOMAIN d THEN d[k] ELSE default

\* the dict without key k
Pop(d, k) == [x \in DOMAIN d \ {k} |-> d[x]]

\* d[k] = v
Put(d, k, v) == [x \in DOMAIN d \cup {k} |-> IF x = k THEN v ELSE d[x]]

exit_H_CUST_keep(st) == st

exit_H_CUST(st) ==
    LET current_customer == Get(st, "current_customer", EmptyDict)
        popped == Pop(st, "current_customer")
    IN IF Truthy(current_customer)
       THEN Put(popped, "customers",
                Append(Get(popped, "customers", <<>>), current_customer))
       ELSE popped

enter_final_noflush(st, data) == [state |-> st, err |-> NoError]

enter_final(st, data) == [state |-> exit_H_CUST(st), err |-> NoError]

enter_CUST(st, data) ==
    IF Truthy(Get(st, "current_customer", EmptyDict))
    THEN [state |-> st, err |-> Raise("InconsistentState", "enter_CUST")]
    ELSE [state |-> Put(st, "current_customer",
                        merge(parse_csv(DATA_TYPE_HEADERS.CUST, data),
                              PairsAsDict(Get(st, "append_to_cust", <<>>)))),
          err |-> NoError]

enter_REF_nocheck(st, data) ==
    LET current_customer == Get(st, "current_customer", EmptyDict)
        references == Get(current_customer, "references", <<>>)
    IN IF parse_csv_raises(DATA_TYPE_HEADERS.REF, data)
       THEN [state |-> st, err |-> Raise("ValueError", "deserialize_integer")]
       ELSE [state |-> Put(st, "current_customer",
                           Put(current_customer, "references",
                               Append(references,
                                      merge(parse_csv(DATA_TYPE_HEADERS.REF, data),
                                            PairsAsDict(Get(st, "append_to_ref", <<>>)))))),
             err |-> NoError]

enter_REF_into_last(st, data) ==
    LET customers == Get(st, "customers", <<>>)
        current_customer ==
            IF Truthy(Get(st, "current_customer", EmptyDict)) \/ customers = <<>>
            THEN Get(st, "current_customer", EmptyDict)
            ELSE customers[Len(customers)]
        references == Get(current_customer, "references", <<>>)
        row == merge(parse_csv(DATA_TYPE_HEADERS.REF, data),
                     PairsAsDict(Get(st, "append_to_ref", <<>>)))
    IN IF ~Truthy(current_customer)
       THEN [state |-> st, err |-> Raise("InconsistentState", "enter_REF")]
       ELSE IF parse_csv_raises(DATA_TYPE_HEADERS.REF, data)
       THEN [state |-> st, err |-> Raise("ValueError", "deserialize_integer")]
       ELSE IF Truthy(Get(st, "current_customer", EmptyDict))
       THEN [state |-> Put(st, "current_customer",
                           Put(current_customer, "references", Append(references, row))),
             err |-> NoError]
       ELSE [state |-> Put(st, "customers",
                           [customers EXCEPT ![Len(customers)] =
                               Put(current_customer, "references",
                                   Append(references, row))]),
             err |-> NoError]

enter_REF(st, data) ==
    LET current_customer == Get(st, "current_customer", EmptyDict)
        references == Get(current_customer, "references", <<>>)
    IN IF ~Truthy(current_customer)
       THEN [state |-> st, err |-> Raise("InconsistentState", "enter_REF")]
       ELSE IF parse_csv_raises(DATA_TYPE_HEADERS.REF, data)
       THEN [state |-> Put(st, "current_customer",
                           Put(current_customer, "references", references)),
             err |-> Raise("ValueError", "deserialize_integer")]
       ELSE [state |-> Put(st, "current_customer",
                           Put(current_customer, "references",
                               Append(references,
                                      merge(parse_csv(DATA_TYPE_HEADERS.REF, data),
                                            PairsAsDict(Get(st, "append_to_ref", <<>>)))))),
             err |-> NoError]

enter_H_swapped(st, data) ==
    IF Len(data) < 9
    THEN [state |-> st, err |-> Raise("IndexError", "enter_H")]
    ELSE LET extra == <<<<"insert_date", data[9]>>, <<"insert_time", data[8]>>>>
         IN [state |-> Put(Put(st, "append_to_ref", extra), "append_to_cust", extra),
             err |-> NoError]

enter_H(st, data) ==
    IF Len(data) < 9
    THEN [state |-> st, err |-> Raise("IndexError", "enter_H")]
    ELSE LET extra == <<<<"insert_date", data[8]>>, <<"insert_time", data[9]>>>>
         IN [state |-> Put(Put(st, "append_to_ref", extra), "append_to_cust", extra),
             err |-> NoError]

(* ---------------------------- state machine ---------------------------- *)

STATES_later_header ==
    [n \in {"__initial__", "H", "S", "H_CUST", "CUST", "H_REF", "REF", "MEDIUM",
            "__final__"} |->
        CASE n = "__initial__" -> [valid_states |-> {"H", "*"}]
          [] n = "H" -> [enter |-> "enter_H", valid_states |-> {"H_CUST", "S"}]
          [] n = "S" -> [valid_states |-> {"H_CUST"}]
          [] n = "H_CUST" -> [exit |-> "exit_H_CUST", valid_states |-> {"CUST", "H_REF"}]
          [] n = "CUST" -> [enter |-> "enter_CUST",
                            valid_states |-> {"H_REF", "H_CUST", "MEDIUM", "H"}]
          [] n = "H_REF" -> [valid_states |-> {"REF"}]
          [] n = "REF" -> [enter |-> "enter_REF",
                           valid_states |-> {"REF", "H_CUST", "MEDIUM", "H"}]
          [] n = "MEDIUM" -> EmptyDict
          [] n = "__final__" -> [final |-> TRUE, enter |-> "enter_final"]]

STATES ==
    [n \in {"__initial__", "H", "S", "H_CUST", "CUST", "H_REF", "REF", "MEDIUM",
            "__final__"} |->
        CASE n = "__initial__" -> [valid_states |-> {"H", "*"}]
          [] n = "H" -> [enter |-> "enter_H", valid_states |-> {"H_CUST", "S"}]
          [] n = "S" -> [valid_states |-> {"H_CUST"}]
          [] n = "H_CUST" -> [exit |-> "exit_H_CUST", valid_states |-> {"CUST", "H_REF"}]
          [] n = "CUST" -> [enter |-> "enter_CUST",
                            valid_states |-> {"H_REF", "H_CUST", "MEDIUM"}]
          [] n = "H_REF" -> [valid_states |-> {"REF"}]
          [] n = "REF" -> [enter |-> "enter_REF",
                           valid_states |-> {"REF", "H_CUST", "MEDIUM"}]
          [] n = "MEDIUM" -> EmptyDict
          [] n = "__final__" -> [final |-> TRUE, enter |-> "enter_final"]]

\* the name in names spelled by the token
Named(names, tok) == CHOOSE n \in names : Spell[n] = tok

fsm_no_terminal(a, data) ==
    LET valid_states == Get(STATES[a], "valid_states", {})
    IN IF data = <<>>
       THEN [next |-> a, err |-> Raise("IndexError", "fsm")]
       ELSE IF \E n \in valid_states : Spell[n] = data[1]
       THEN IF Named(valid_states, data[1]) \in DOMAIN STATES
            THEN [next |-> Named(valid_states, data[1]), err |-> NoError]
            ELSE [next |-> a, err |-> Raise("KeyError", "fsm")]
       ELSE IF "*" \in valid_states
       THEN [next |-> a, err |-> NoError]
       ELSE [next |-> a, err |-> Raise("RuntimeError", "fsm")]

fsm(a, data) ==
    IF "valid_states" \notin DOMAIN STATES[a]
    THEN [next |-> "__final__", err |-> NoError]
    ELSE IF data = <<>>
    THEN [next |-> a, err |-> Raise("IndexError", "fsm")]
    ELSE IF \E n \in STATES[a]["valid_states"] : Spell[n] = data[1]
    THEN IF Named(STATES[a]["valid_states"], data[1]) \in DOMAIN STATES
         THEN [next |-> Named(STATES[a]["valid_states"], data[1]), err |-> NoError]
         ELSE [next |-> a, err |-> Raise("KeyError", "fsm")]
    ELSE IF "*" \in STATES[a]["valid_states"]
    THEN [next |-> a, err |-> NoError]
    ELSE [next |-> a, err |-> Raise("RuntimeError", "fsm")]

\* exitf(state)
ApplyExit(f, st) == CASE f = "exit_H_CUST" -> exit_H_CUST(st)

\* enterf(state, data)
ApplyEnter(f, st, data) ==
    CASE f = "enter_H" -> enter_H(st, data)
      [] f = "enter_CUST" -> enter_CUST(st, data)
      [] f = "enter_REF" -> enter_REF(st, data)
      [] f = "enter_final" -> enter_final(st, data)

(* ----------------------------- SQL emitter ----------------------------- *)

Line(kind) == [kind |-> kind]

RaiseItem == [kind |-> "RAISE", exc |-> "KeyError"]

\* what one step of the generator gives for an insert_sql call
InsertItem(t, row, foreign_keys) ==
    IF insert_sql_raises(t, row, foreign_keys) THEN RaiseItem
    ELSE insert_sql(t, row, foreign_keys)

CustomerItems_refs_first(customer) ==
    IF insert_sql_raises(DATA_TYPE_HEADERS.CUST, customer, EmptyDict)
    THEN <<RaiseItem>>
    ELSE [i \in 1..Len(Get(customer, "references", <<>>)) |->
             InsertItem(DATA_TYPE_HEADERS.REF, customer["references"][i],
                        [customer_code |-> customer["customer_code"]])] \o
         <<insert_sql(DATA_TYPE_HEADERS.CUST, customer, EmptyDict)>>

\* the body of the loop over customers
CustomerItems(customer) ==
    IF insert_sql_raises(DATA_TYPE_HEADERS.CUST, customer, EmptyDict)
    THEN <<RaiseItem>>
    ELSE <<insert_sql(DATA_TYPE_HEADERS.CUST, customer, EmptyDict)>> \o
         [i \in 1..Len(Get(customer, "references", <<>>)) |->
             InsertItem(DATA_TYPE_HEADERS.REF, customer["references"][i],
                        [customer_code |-> customer["customer_code"]])]

as_sql_items_cust_first(st, cr) ==
    <<Line("BEGIN TRANSACTION;")>> \o
    (IF cr THEN <<Line(""), Line("-- Create tables"),
                  create_sql(DATA_TYPE_HEADERS.CUST),
                  create_sql(DATA_TYPE_HEADERS.REF)>>
     ELSE <<>>) \o
    <<Line("")>> \o
    (IF Get(st, "customers", <<>>) # <<>>
     THEN <<Line("-- Customers")>> \o
          Flatten([i \in 1..Len(st["customers"]) |-> CustomerItems(st["customers"][i])])
     ELSE <<>>) \o
    <<Line("")>> \o
    <<Line("COMMIT;")>>

\* everything the generator would yield if no insert_sql call ended it
as_sql_items(st, cr) ==
    <<Line("BEGIN TRANSACTION;")>> \o
    (IF cr THEN <<Line(""), Line("-- Create tables"),
                  create_sql(DATA_TYPE_HEADERS.REF),
                  create_sql(DATA_TYPE_HEADERS.CUST)>>
     ELSE <<>>) \o
    <<Line("")>> \o
    (IF Get(st, "customers", <<>>) # <<>>
     THEN <<Line("-- Customers")>> \o
          Flatten([i \in 1..Len(st["customers"]) |-> CustomerItems(st["customers"][i])])
     ELSE <<>>) \o
    <<Line("")>> \o
    <<Line("COMMIT;")>>

\* iterating as_sql(state, create) ends in a KeyError
as_sql_raises(st, cr) ==
    \E i \in 1..Len(as_sql_items(st, cr)) : as_sql_items(st, cr)[i].kind = "RAISE"

\* the lines as_sql(state, create) yields (up to the error, when it raises)
as_sql(st, cr) ==
    LET items == as_sql_items(st, cr)
        bad == {i \in 1..Len(items) : items[i].kind = "RAISE"}
    IN IF bad = {} THEN items
       ELSE SubSeq(items, 1, (CHOOSE i \in bad : \A j \in bad : i <= j) - 1)

(* ------------------------------- main ---------------------------------- *)

Step_enter_first(a, st, data) ==
    LET f == fsm(a, data)
        new_action == f.next
        enters == IF "enter" \in DOMAIN STATES[new_action]
                  THEN <<STATES[new_action]["enter"]>> ELSE <<>>
        r == IF enters # <<>> THEN ApplyEnter(enters[1], st, data)
             ELSE [state |-> st, err |-> NoError]
        exits == IF STATES[new_action] # STATES[a] /\ "exit" \in DOMAIN STATES[a]
                 THEN <<STATES[a]["exit"]>> ELSE <<>>
        st1 == IF exits # <<>> THEN ApplyExit(exits[1], r.state) ELSE r.state
    IN IF f.err # NoError
       THEN [state |-> st, action |-> a, err |-> f.err, pc |-> "error", calls |-> <<>>]
       ELSE IF r.err # NoError
       THEN [state |-> r.state, action |-> a, err |-> r.err, pc |-> "error",
             calls |-> enters]
       ELSE IF "final" \in DOMAIN STATES[new_action]
       THEN [state |-> st1, action |-> a, err |-> NoError, pc |-> "final",
             calls |-> enters \o exits]
       ELSE [state |-> st1, action |-> new_action, err |-> NoError, pc |-> "read",
             calls |-> enters \o exits]

\* one iteration of the read loop, for the row the reader delivers
Step(a, st, data) ==
    LET f == fsm(a, data)
        new_action == f.next
        exits == IF STATES[new_action] # STATES[a] /\ "exit" \in DOMAIN STATES[a]
                 THEN <<STATES[a]["exit"]>> ELSE <<>>
        st1 == IF exits # <<>> THEN ApplyExit(exits[1], st) ELSE st
        enters == IF "enter" \in DOMAIN STATES[new_action]
                  THEN <<STATES[new_action]["enter"]>> ELSE <<>>
        r == IF enters # <<>> THEN ApplyEnter(enters[1], st1, data)
             ELSE [state |-> st1, err |-> NoError]
    IN IF f.err # NoError
       THEN [state |-> st, action |-> a, err |-> f.err, pc |-> "error", calls |-> <<>>]
       ELSE IF r.err # NoError
       THEN [state |-> r.state, action |-> a, err |-> r.err, pc |-> "error",
             calls |-> exits \o enters]
       ELSE IF "final" \in DOMAIN STATES[new_action]
       THEN [state |-> r.state, action |-> a, err |-> NoError, pc |-> "final",
             calls |-> exits \o enters]
       ELSE [state |-> r.state, action |-> new_action, err |-> NoError, pc |-> "read",
             calls |-> exits \o enters]

Init ==
    /\ state = EmptyDict
    /\ action = "__initial__"
    /\ pc = "read"
    /\ err = NoError
    /\ output = <<>>
    /\ create \in BOOLEAN
    /\ rows = <<>>
    /\ calls = <<>>
    /\ value = <<>>
    /\ literal = <<>>
    /\ ftype = "none"
    /\ args = <<>>
    /\ result = <<>>

\* lines 435-452: the reader delivers a row
ReadRow(data) ==
    /\ pc = "read"
    /\ Len(rows) < MaxRows
    /\ LET s == Step(action, state, data)
       IN /\ (s.pc = "read" /\ s.action = "__initial__") => Len(rows) < MaxSkip
          /\ state' = s.state
          /\ action' = s.action
          /\ err' = s.err
          /\ pc' = s.pc
          /\ calls' = s.calls
    /\ rows' = Append(rows, data)
    /\ UNCHANGED <<output, create, value, literal, ftype, args, result>>

\* lines 435-438: the reader is exhausted
EndOfInput ==
    /\ pc = "read"
    /\ pc' = "eof"
    /\ calls' = <<>>
    /\ UNCHANGED <<state, action, err, output, create, rows, value, literal, ftype, args, result>>

Write_streaming ==
    /\ pc \in {"eof", "final"}
    /\ IF as_sql_raises(state, create)
       THEN /\ pc' = "error"
            /\ err' = Raise("KeyError", "insert_sql")
       ELSE /\ pc' = "done"
            /\ err' = err
    /\ output' = as_sql(state, create)
    /\ calls' = <<>>
    /\ UNCHANGED <<state, action, create, rows, value, literal, ftype, args, result>>

\* lines 454-455: join the whole of as_sql, then write it
Write ==
    /\ pc \in {"eof", "final"}
    /\ IF as_sql_raises(state, create)
       THEN /\ pc' = "error"
            /\ err' = Raise("KeyError", "insert_sql")
            /\ output' = output
       ELSE /\ pc' = "done"
            /\ err' = err
            /\ output' = as_sql(state, create)
    /\ calls' = <<>>
    /\ UNCHANGED <<state, action, create, rows, value, literal, ftype, args, result>>

Next ==
    \/ \E data \in NextRows(rows) : ReadRow(data)
    \/ EndOfInput
    \/ Write

Spec == Init /\ [][Next]_vars

(* ------------------- the emitter on its own: SpecEmit ------------------ *)

\* the state after the header row
AfterHeader == enter_H(EmptyDict, HRow(D1, T1)).state

EmitCustRows == CustRows

EmitRefRows == {r \in RefRows : ~parse_csv_raises(DATA_TYPE_HEADERS.REF, r)}

RECURSIVE AddRefs(_, _)
AddRefs(st, rs) ==
    IF rs = <<>> THEN st ELSE AddRefs(enter_REF(st, Head(rs)).state, Tail(rs))

\* the customers enter_CUST and k calls of enter_REF can build
Opened(k) ==
    {AddRefs(enter_CUST(AfterHeader, c).state, rs)["current_customer"] :
        c \in EmitCustRows, rs \in [1..k -> EmitRefRows]}

\* the lists of customers holding at most b records
RECURSIVE CustomerLists(_)
CustomerLists(b) ==
    {<<>>} \cup
    UNION {{<<c>> \o rest : c \in Opened(w - 1), rest \in CustomerLists(b - w)} :
              w \in 1..b}

\* the processing states the read loop can hand to as_sql
EmitStates ==
    {EmptyDict, AfterHeader} \cup
    {Put(AfterHeader, "customers", cs) : cs \in CustomerLists(MaxRecords) \ {<<>>}}

InitEmit ==
    /\ state \in EmitStates
    /\ action = "MEDIUM"
    /\ pc = "final"
    /\ err = NoError
    /\ output = <<>>
    /\ create \in BOOLEAN
    /\ rows = <<>>
    /\ calls = <<"enter_final">>
    /\ value = <<>>
    /\ literal = <<>>
    /\ ftype = "none"
    /\ args = <<>>
    /\ result = <<>>

SpecEmit == InitEmit /\ [][Write]_vars

(* ----------------- the field round trips: SpecFields ------------------- *)

FieldAlphabet == {Q, "y", "e", "s", "Y", "E", "S", "n", "O", "B"}

Cells == UNION {[1..n -> FieldAlphabet] : n \in 0..MaxLen}

InitFields ==
    /\ state = EmptyDict
    /\ action = "__initial__"
    /\ pc = "field"
    /\ err = NoError
    /\ output = <<>>
    /\ create = FALSE
    /\ rows = <<>>
    /\ calls = <<>>
    /\ value \in Cells
    /\ literal = <<>>
    /\ ftype = "none"
    /\ args = <<>>
    /\ result = <<>>

\* text.serialize(text.deserialize(value))
RoundTripText ==
    /\ pc = "field"
    /\ ftype = "none"
    /\ literal' = serialize_text(deserialize_text(value))
    /\ ftype' = "text"
    /\ UNCHANGED <<state, action, pc, err, output, create, rows, calls, value, args, result>>

\* yesno.serialize(yesno.deserialize(value))
RoundTripYesNo ==
    /\ pc = "field"
    /\ ftype = "none"
    /\ literal' = serialize_yesno(deserialize_yesno(value))
    /\ ftype' = "yesno"
    /\ UNCHANGED <<state, action, pc, err, output, create, rows, calls, value, args, result>>

NextFields == RoundTripText \/ RoundTripYesNo

SpecFields == InitFields /\ [][NextFields]_vars

(* ------------------- the tables on their own: SpecTable ---------------- *)

\* a customer row with a cell more than the table has CSV columns
LongRow == CustRow(C002, <<"A">>, <<"n","o">>) \o <<<<"x">>>>

TableRows == CustRows \cup RefRows \cup {LongRow, <<>>}

\* the foreign_keys arguments: absent or empty, the declared key, an undeclared
\* key, both
FkMaps == {EmptyDict, [customer_code |-> C001], [other |-> C002],
           [customer_code |-> C002, other |-> C001]}

\* the extras merged into a parsed row: none, or those of a header row
ExtraLists == {<<>>, AfterHeader["append_to_cust"]}

TableArgs ==
    [table : {"CUST", "REF"}, data : TableRows, extras : ExtraLists,
     foreign_keys : FkMaps]

InitTable ==
    /\ state = EmptyDict
    /\ action = "__initial__"
    /\ pc = "table"
    /\ err = NoError
    /\ output = <<>>
    /\ create = FALSE
    /\ rows = <<>>
    /\ calls = <<>>
    /\ value = <<>>
    /\ literal = <<>>
    /\ ftype = "none"
    /\ args \in TableArgs
    /\ result = [op |-> "none"]

\* table.parse_csv(data)
ParseCsv ==
    /\ pc = "table"
    /\ result.op = "none"
    /\ result' =
          IF parse_csv_raises(DATA_TYPE_HEADERS[args.table], args.data)
          THEN [op |-> "parse_csv", raised |-> "ValueError"]
          ELSE [op |-> "parse_csv", raised |-> "none",
                value |-> parse_csv(DATA_TYPE_HEADERS[args.table], args.data)]
    /\ UNCHANGED <<state, action, pc, err, output, create, rows, calls, value,
                   literal, ftype, args>>

\* the row the callbacks hand on: merge(table.parse_csv(data), extras)
ParsedRow(a) ==
    merge(parse_csv(DATA_TYPE_HEADERS[a.table], a.data), PairsAsDict(a.extras))

\* table.insert_sql(row, foreign_keys) for a row parse_csv gave
InsertSql ==
    /\ pc = "table"
    /\ result.op = "none"
    /\ ~parse_csv_raises(DATA_TYPE_HEADERS[args.table], args.data)
    /\ result' =
          IF insert_sql_raises(DATA_TYPE_HEADERS[args.table], ParsedRow(args),
                               args.foreign_keys)
          THEN [op |-> "insert_sql", raised |-> "KeyError"]
          ELSE [op |-> "insert_sql", raised |-> "none",
                value |-> insert_sql(DATA_TYPE_HEADERS[args.table], ParsedRow(args),
                                     args.foreign_keys)]
    /\ UNCHANGED <<state, action, pc, err, output, create, rows, calls, value,
                   literal, ftype, args>>

\* table.create_sql()
CreateSql ==
    /\ pc = "table"
    /\ result.op = "none"
    /\ result' = [op |-> "create_sql", raised |-> "none",
                  value |-> create_sql(DATA_TYPE_HEADERS[args.table])]
    /\ UNCHANGED <<state, action, pc, err, output, create, rows, calls, value,
                   literal, ftype, args>>

NextTable == ParseCsv \/ InsertSql \/ CreateSql

SpecTable == InitTable /\ [][NextTable]_vars

(* ============================== the claims ============================= *)

Customers(st) == Get(st, "customers", <<>>)

\* the finalized customers followed by the open one
AllCustomers(st) ==
    Customers(st) \o
    (IF Truthy(Get(st, "current_customer", EmptyDict))
     THEN <<st["current_customer"]>> ELSE <<>>)

Last(sq) == sq[Len(sq)]

\* the state each consumed row took the machine into ("error": the row was refused)
RECURSIVE Entered(_, _)
Entered(a, rs) ==
    IF rs = <<>> THEN <<>>
    ELSE LET f == fsm(a, Head(rs))
         IN IF f.err # NoError THEN <<"error">> \o Entered(a, Tail(rs))
            ELSE <<f.next>> \o Entered(IF f.next = "__final__" THEN a ELSE f.next, Tail(rs))

EnteredRows == Entered("__initial__", rows)

\* the rows processed as CUST rows
CustAt == {i \in 1..Len(rows) : EnteredRows[i] = "CUST"}

NthCust(k) == CHOOSE i \in CustAt : Cardinality({j \in CustAt : j < i}) = k - 1

\* the REF rows after row i and before the next CUST row
RefsAfter(i) ==
    Cardinality({j \in (i + 1)..Len(rows) :
                    /\ EnteredRows[j] = "REF"
                    /\ \A m \in (i + 1)..j : EnteredRows[m] # "CUST"})

\* C1 (as claimed): when the read loop ends without an error, customers holds one
\* entry per CUST row processed, each with one reference per REF row that followed it.
C1_Claim ==
    pc \in {"eof", "final"} =>
        /\ Len(Customers(state)) = Cardinality(CustAt)
        /\ \A k \in 1..Len(Customers(state)) :
              Len(Get(Customers(state)[k], "references", <<>>)) = RefsAfter(NthCust(k))

\* C2 (as claimed): when the loop ends because the input is exhausted, no customer
\* is open and the last customer a CUST row opened is the last of customers.
C2_Claim ==
    pc = "eof" =>
        /\ "current_customer" \notin DOMAIN state
        /\ CustAt # {} =>
              /\ Customers(state) # <<>>
              /\ Last(Customers(state))["customer_code"] =
                    rows[CHOOSE i \in CustAt : \A j \in CustAt : j <= i][2]

Inserts(lines) == SelectSeq(lines, LAMBDA l : l.kind = "INSERT")

\* the literal an INSERT line gives for a column
ColValue(line, name) == line.data[CHOOSE i \in 1..Len(line.cols) : line.cols[i] = name]

Quoted(v) == <<Q>> \o v \o <<Q>>

\* exactly one customer INSERT for C001, then one reference INSERT carrying
\* customer_code 'C001', and COMMIT; as the last line
OneCustomerOneReference(lines) ==
    /\ Len(Inserts(lines)) = 2
    /\ Inserts(lines)[1].table = "customers"
    /\ ColValue(Inserts(lines)[1], "customer_code") = Quoted(C001)
    /\ Inserts(lines)[2].table = "customer_references"
    /\ ColValue(Inserts(lines)[2], "customer_code") = Quoted(C001)
    /\ Last(lines) = Line("COMMIT;")

IsPrefix(p, sq) == Len(p) <= Len(sq) /\ p = SubSeq(sq, 1, Len(p))

C3Input == <<HRow(D1, T1), CustRow(C001, <<"O", Q, "B">>, <<"Y","e","s">>),
             RefRow(R1, <<"5">>, <<"y","e","s">>)>>

C3Rows == <<HRow(D1, T1), <<Spell["H_CUST"]>>,
            CustRow(C001, <<"O", Q, "B">>, <<"Y","e","s">>), <<Spell["H_REF"]>>,
            RefRow(R1, <<"5">>, <<"y","e","s">>), <<Spell["MEDIUM"]>>>>

\* the input consumed so far is the start of C3Rows followed by one more row
InC3Run == IF Len(rows) <= 6 THEN IsPrefix(rows, C3Rows)
           ELSE Len(rows) = 7 /\ SubSeq(rows, 1, 6) = C3Rows

TheHeader ==
    LET entered == EnteredRows
        at == {i \in 1..Len(rows) : entered[i] = "H"}
    IN rows[CHOOSE i \in at : \A j \in at : j <= i]

CarriesHeader(row, header) ==
    /\ row["insert_date"] = header[8]
    /\ row["insert_time"] = header[9]

\* C4: every customer, open or finalized, carries fields 7 and 8 of the header
\* row before it as insert_date and insert_time, and so does each of its references.
C4_HeaderExtras ==
    AllCustomers(state) # <<>> =>
        LET header == TheHeader
            all == AllCustomers(state)
        IN \A k \in 1..Len(all) :
              LET c == all[k]
              IN /\ CarriesHeader(c, header)
                 /\ \A m \in 1..Len(Get(c, "references", <<>>)) :
                       CarriesHeader(c["references"][m], header)

C4_Witness ==
    /\ Customers(state) # <<>>
    /\ Get(Customers(state)[1], "references", <<>>) # <<>>
    /\ TheHeader = HRow(D2, T2)
    /\ Customers(state)[1]["insert_date"] = D2
    /\ Customers(state)[1]["references"][1]["insert_time"] = T2

\* a row was read in this step
RowRead == rows' # rows

\* a customer is open
Open(st) == Truthy(Get(st, "current_customer", EmptyDict))

\* C5: a row that takes the machine into REF while no customer is open raises
\* InconsistentState in enter_REF, changes nothing and aborts; with a customer
\* open, the reference parsed from the row becomes the last of its references.
C5_EnterRef ==
    [][(RowRead /\ fsm(action, Last(rows')).err = NoError
                /\ fsm(action, Last(rows')).next = "REF") =>
          IF ~Open(state)
          THEN /\ err' = Raise("InconsistentState", "enter_REF")
               /\ pc' = "error"
               /\ state' = state
          ELSE /\ Customers(state') = Customers(state)
               /\ pc' = "read" =>
                     LET old == Get(state["current_customer"], "references", <<>>)
                         new == state'["current_customer"]["references"]
                     IN /\ Len(new) = Len(old) + 1
                        /\ SubSeq(new, 1, Len(old)) = old
                        /\ Last(new)["reference_identifier"] = Last(rows')[2]
                        /\ Pop(state'["current_customer"], "references") =
                              Pop(state["current_customer"], "references")]_vars

C5_Witness ==
    /\ err = Raise("InconsistentState", "enter_REF")
    /\ pc = "error"
    /\ Len(rows) >= 3
    /\ rows[Len(rows) - 2] = <<Spell["H_CUST"]>>
    /\ rows[Len(rows) - 1] = <<Spell["H_REF"]>>
    /\ Customers(state) # <<>>

IsCust(data) == data # <<>> /\ data[1] = Spell["CUST"]

\* C6 (as claimed): a CUST row read while a customer is open and the machine is not
\* in H_CUST raises InconsistentState in enter_CUST.
C6_Claim ==
    [][(RowRead /\ IsCust(Last(rows')) /\ Open(state) /\ action # "H_CUST") =>
          err' = Raise("InconsistentState", "enter_CUST")]_vars

\* C6 (amended): a CUST row read while a customer is open, right after a CUST, H_REF
\* or REF row, is refused by fsm with the invalid-transition error and changes
\* nothing; no run raises InconsistentState in enter_CUST.
C6_Amended ==
    [][/\ (RowRead /\ IsCust(Last(rows')) /\ Open(state)
                   /\ action \in {"CUST", "H_REF", "REF"}) =>
             /\ err' = Raise("RuntimeError", "fsm")
             /\ pc' = "error"
             /\ state' = state
       /\ err' # Raise("InconsistentState", "enter_CUST")]_vars

C6_Witness ==
    /\ err = Raise("RuntimeError", "fsm")
    /\ Len(rows) >= 2
    /\ IsCust(Last(rows))
    /\ IsCust(rows[Len(rows) - 1])
    /\ Open(state)
    /\ action = "CUST"

References(c) == Get(c, "references", <<>>)

\* where the INSERT of the k-th customer stands among the INSERT lines
RECURSIVE InsertPos(_, _)
InsertPos(cs, k) ==
    IF k = 1 THEN 1 ELSE InsertPos(cs, k - 1) + 1 + Len(References(cs[k - 1]))

\* the customers of cs and their references, counted together
NumRecords(cs) ==
    IF cs = <<>> THEN 0 ELSE InsertPos(cs, Len(cs)) + Len(References(cs[Len(cs)]))

\* BEGIN TRANSACTION; first, COMMIT; last, the INSERT lines in one block, and in it
\* each customer of cs in order, each followed at once by its references in order
InsertsFollow(lines, cs) ==
    LET ins == Inserts(lines)
        at == {i \in 1..Len(lines) : lines[i].kind = "INSERT"}
    IN /\ lines[1] = Line("BEGIN TRANSACTION;")
       /\ Last(lines) = Line("COMMIT;")
       /\ \A i \in at : \A j \in at : \A m \in i..j : m \in at
       /\ Len(ins) = NumRecords(cs)
       /\ \A k \in 1..Len(cs) :
             LET p == InsertPos(cs, k)
             IN /\ ins[p].table = "customers"
                /\ ColValue(ins[p], "customer_code") =
                      serialize_text(cs[k]["customer_code"])
                /\ ColValue(ins[p], "name") = serialize_text(cs[k]["name"])
                /\ \A m \in 1..Len(References(cs[k])) :
                      /\ ins[p + m].table = "customer_references"
                      /\ ColValue(ins[p + m], "reference_identifier") =
                            serialize_text(cs[k]["references"][m]["reference_identifier"])
                      /\ ColValue(ins[p + m], "length") =
                            serialize_integer(cs[k]["references"][m]["length"])
                      /\ ColValue(ins[p + m], "customer_code") =
                            serialize_text(cs[k]["customer_code"])

\* C7: the lines as_sql yields for a processing state it can serialize, and the
\* lines main wrote, start with BEGIN TRANSACTION;, end with COMMIT; and hold one
\* INSERT per finalized customer in order, each followed at once by one INSERT per
\* reference in order carrying that customer's customer_code.
C7_InsertOrder ==
    /\ ~as_sql_raises(state, create) =>
          InsertsFollow(as_sql(state, create), Customers(state))
    /\ pc = "done" => InsertsFollow(output, Customers(state))

C7_Witness ==
    /\ pc = "done"
    /\ Len(Customers(state)) = 2
    /\ Customers(state)[1]["customer_code"] # Customers(state)[2]["customer_code"]
    /\ Len(References(Customers(state)[1])) = 2
    /\ Customers(state)[1]["references"][1] # Customers(state)[1]["references"][2]
    /\ Len(Inserts(output)) = 4

CreateAt(lines) == {i \in 1..Len(lines) : lines[i].kind = "CREATE"}

\* C8: without the create option as_sql yields no CREATE TABLE line; with it, exactly
\* two, customer_references then customers, after BEGIN TRANSACTION; and before
\* every INSERT; what main wrote follows its create option.
C8_CreateTables ==
    /\ CreateAt(as_sql(state, FALSE)) = {}
    /\ LET lines == as_sql(state, TRUE)
       IN \E i \in CreateAt(lines) : \E j \in CreateAt(lines) :
             /\ CreateAt(lines) = {i, j}
             /\ 1 < i
             /\ i < j
             /\ lines[1] = Line("BEGIN TRANSACTION;")
             /\ lines[i].table = "customer_references"
             /\ lines[j].table = "customers"
             /\ \A m \in 1..Len(lines) : lines[m].kind = "INSERT" => j < m
    /\ pc = "done" => Cardinality(CreateAt(output)) = IF create THEN 2 ELSE 0

C8_Witness ==
    /\ pc = "done"
    /\ create
    /\ Cardinality(CreateAt(output)) = 2
    /\ Len(Inserts(output)) >= 2

\* C9: after a fatal error nothing has been written; what has been written is the
\* whole statement sequence of a run that ended without error.
C9_AllOrNothing ==
    /\ pc = "error" => output = <<>>
    /\ err # NoError => output = <<>>
    /\ output # <<>> =>
          /\ pc = "done"
          /\ output[1] = Line("BEGIN TRANSACTION;")
          /\ Last(output) = Line("COMMIT;")
          /\ Len(Inserts(output)) = NumRecords(Customers(state))

\* the emitter had yielded an INSERT before the lookup error ended it
C9_Witness ==
    /\ pc = "error"
    /\ err = Raise("KeyError", "insert_sql")
    /\ Inserts(as_sql(state, create)) # <<>>
    /\ output = <<>>

\* the text a quoted body stands for; a quote that is not doubled ends the scan
RECURSIVE Unquote(_)
Unquote(body) ==
    IF body = <<>> THEN [ok |-> TRUE, text |-> <<>>]
    ELSE IF Head(body) # Q
    THEN [ok |-> Unquote(Tail(body)).ok, text |-> <<Head(body)>> \o Unquote(Tail(body)).text]
    ELSE IF Len(body) >= 2 /\ body[2] = Q
    THEN [ok |-> Unquote(Tail(Tail(body))).ok,
          text |-> <<Q>> \o Unquote(Tail(Tail(body))).text]
    ELSE [ok |-> FALSE, text |-> <<>>]

YesSpellings == {<<y, ee, ss>> : y \in {"y", "Y"}, ee \in {"e", "E"}, ss \in {"s", "S"}}

\* C10: the text round trip gives the value between two single quotes with every
\* single quote of the value doubled and no other change; the yesno round trip
\* gives 1 for the spellings of yes in any case and 0 for everything else.
C10_RoundTrip ==
    /\ ftype = "text" =>
          /\ Len(literal) = Len(value) + 2 + Cardinality({i \in 1..Len(value) : value[i] = Q})
          /\ Head(literal) = Q
          /\ Last(literal) = Q
          /\ Unquote(SubSeq(literal, 2, Len(literal) - 1)) = [ok |-> TRUE, text |-> value]
    /\ ftype = "yesno" => literal = IF value \in YesSpellings THEN <<"1">> ELSE <<"0">>

C10_Witness ==
    ftype = "text" /\ value = <<"O", Q, "B">> /\ literal = <<Q, "O", Q, Q, "B", Q>>

(* ------------------------------ C11 .. C20 ----------------------------- *)

NamesOf(cols) == [i \in 1..Len(cols) |-> cols[i].name]

\* the declared columns that are stored: all but the record type
StoredNames(t) == SelectSeq(NamesOf(t.columns), LAMBDA n : n # "record_type")

\* the declared columns that are read from a row: all but the two insert stamps
CellNames(t) ==
    SelectSeq(NamesOf(t.columns), LAMBDA n : n \notin {"insert_date", "insert_time"})

\* the foreign-key columns the mapping has a value for
GivenKeys(t, fk) == SelectSeq(NamesOf(t.foreign_keys), LAMBDA n : n \in DOMAIN fk)

\* C11: insert_sql lists the stored columns in declaration order, then the
\* foreign-key columns the mapping names; it fails with a lookup error, and gives
\* no statement, exactly when the merged row lacks one of the listed columns.
C11_InsertColumns ==
    result.op = "insert_sql" =>
        LET t == DATA_TYPE_HEADERS[args.table]
            listed == StoredNames(t) \o GivenKeys(t, args.foreign_keys)
            keys == DOMAIN ParsedRow(args) \cup DOMAIN args.foreign_keys
        IN IF \E i \in 1..Len(listed) : listed[i] \notin keys
           THEN result.raised = "KeyError" /\ "value" \notin DOMAIN result
           ELSE /\ result.raised = "none"
                /\ result.value.table = t.name
                /\ result.value.cols = listed
                /\ Len(result.value.data) = Len(listed)

C11_Witness ==
    /\ result.op = "insert_sql"
    /\ args.table = "REF"
    /\ args.foreign_keys = [customer_code |-> C002, other |-> C001]
    /\ result.raised = "none"
    /\ Len(result.value.cols) = 22
    /\ result.value.cols[22] = "customer_code"
    /\ result.value.data[22] = <<Q>> \o C002 \o <<Q>>

\* C18: parse_csv gives the i-th cell to the i-th column read from a row, the insert
\* stamps take no cell, and a row with too few cells gives, without an error of
\* its own, the columns that got a cell; insert_sql then fails on the rest.
C18_ParseCsv ==
    LET t == DATA_TYPE_HEADERS[args.table]
        names == CellNames(t)
        n == IF Len(args.data) < Len(names) THEN Len(args.data) ELSE Len(names)
    IN /\ (result.op = "parse_csv" /\ result.raised = "none") =>
             /\ DOMAIN result.value = {names[i] : i \in 1..n}
             /\ \A i \in 1..n :
                   LET c == CHOOSE c \in {t.columns[j] : j \in 1..Len(t.columns)} :
                               c.name = names[i]
                   IN /\ c.field_type.sql_type = "TEXT" =>
                            result.value[names[i]] = args.data[i]
                      /\ c.field_type = yesno =>
                            result.value[names[i]] = (args.data[i] \in YesSpellings)
       /\ (result.op = "parse_csv" /\ result.raised # "none") =>
             \E i \in 1..n : \E j \in 1..Len(t.columns) :
                /\ t.columns[j].name = names[i]
                /\ t.columns[j].field_type = integer
                /\ int_raises(args.data[i])
       /\ (result.op = "insert_sql" /\ Len(args.data) < Len(names)) =>
             result.raised = "KeyError"

C18_Witness ==
    /\ result.op = "parse_csv"
    /\ args.table = "CUST"
    /\ args.data = <<Spell["CUST"], C001>>
    /\ result.raised = "none"
    /\ result.value = [record_type |-> Spell["CUST"], customer_code |-> C001]

RECURSIVE IsSubseq(_, _)
IsSubseq(a, b) ==
    IF a = <<>> THEN TRUE
    ELSE IF b = <<>> THEN FALSE
    ELSE IF Head(a) = Head(b) THEN IsSubseq(Tail(a), Tail(b))
    ELSE IsSubseq(a, Tail(b))

Occurs(n, sq) == \E i \in 1..Len(sq) : sq[i] = n

\* the column names of the CREATE TABLE statement of a table
CreateNames(t) == [i \in 1..Len(create_sql(t).cols) |-> create_sql(t).cols[i][1]]

\* C20: the columns of an INSERT are, in the same order, among the columns of the
\* CREATE TABLE of the same table, and record_type is in neither statement.
C20_InsertWithinCreate ==
    /\ (result.op = "insert_sql" /\ result.raised = "none") =>
          /\ IsSubseq(result.value.cols, CreateNames(DATA_TYPE_HEADERS[args.table]))
          /\ ~Occurs("record_type", result.value.cols)
    /\ result.op = "create_sql" =>
          \A i \in 1..Len(result.value.cols) :
                result.value.cols[i][1] # "record_type"

C20_Witness ==
    /\ result.op = "insert_sql"
    /\ args.table = "REF"
    /\ args.foreign_keys = [customer_code |-> C001]
    /\ result.raised = "none"
    /\ Occurs("customer_code", result.value.cols)
    /\ Len(result.value.cols) = Len(CreateNames(REF_TABLE))

\* the first cell of a row, if it has one
Token(data) == IF data = <<>> THEN <<>> ELSE data[1]

\* the valid-successor set of a state, if it declares one
ValidOf(a) == Get(STATES[a], "valid_states", {})

\* the token is the name of a member of the set
NamesOneOf(tok, names) == \E n \in names : Spell[n] = tok

\* C12 (as claimed): for every state and row, fsm gives __final__ when the state has
\* no valid-successor set, else the state the first cell names when that name is in
\* the set, else the same state when the set holds the wildcard, else the
\* invalid-transition error.
C12_Claim ==
    [][RowRead =>
          LET tok == Token(Last(rows'))
          IN IF "valid_states" \notin DOMAIN STATES[action]
             THEN pc' = "final"
             ELSE IF NamesOneOf(tok, ValidOf(action))
             THEN /\ err'.raised_by # "fsm"
                  /\ pc' = "read" => Spell[action'] = tok
             ELSE IF "*" \in ValidOf(action)
             THEN action' = action /\ err' = NoError
             ELSE err' = Raise("RuntimeError", "fsm")]_vars

\* C13: in a step that changes the state the exit callback of the old state runs
\* before the enter callback of the new one, so leaving H_CUST for CUST finalizes
\* the open customer and then opens the new one; in a step that keeps the state
\* (REF after REF, a row swallowed in __initial__) no exit callback runs; the enter
\* callback of the state entered runs once for the row.
C13_ExitBeforeEnter ==
    [][(RowRead /\ fsm(action, Last(rows')).err = NoError) =>
          LET data == Last(rows')
              new == fsm(action, data).next
              leaves == IF new # action /\ "exit" \in DOMAIN STATES[action]
                        THEN <<STATES[action]["exit"]>> ELSE <<>>
              arrives == IF "enter" \in DOMAIN STATES[new]
                         THEN <<STATES[new]["enter"]>> ELSE <<>>
          IN /\ calls' = leaves \o arrives
             /\ (action = "H_CUST" /\ new = "CUST" /\ Open(state)) =>
                   /\ err' = NoError
                   /\ Customers(state') =
                         Append(Customers(state), state["current_customer"])
                   /\ Open(state')
                   /\ state'["current_customer"]["record_type"] = data[1]
                   /\ "references" \notin DOMAIN state'["current_customer"]
             /\ (action = "REF" /\ new = "REF") => calls' = <<"enter_REF">>
             /\ (action = "__initial__" /\ new = "__initial__") =>
                   calls' = <<>> /\ state' = state]_vars

C13_Witness ==
    /\ calls = <<"exit_H_CUST", "enter_CUST">>
    /\ pc = "read"
    /\ Len(Customers(state)) = 1
    /\ References(Customers(state)[1]) # <<>>
    /\ Open(state)

\* the number of rows processed as CUST rows
NumOpened ==
    LET entered == EnteredRows
    IN Cardinality({i \in 1..Len(rows) : entered[i] = "CUST"})

\* C14: every customer a CUST row opened is either finalized or the one open
\* customer; customers changes only in a step that runs the flush, which appends
\* the open customer and leaves none open before the next callback; the flush
\* changes nothing when no customer is open; it runs whenever the machine leaves
\* H_CUST and whenever it enters __final__.
C14_Flush ==
    [][/\ LET pending == NumOpened - Len(Customers(state))
          IN pending \in {0, 1} /\ (pending = 1) = Open(state)
       /\ Customers(state') # Customers(state) =>
             /\ Open(state)
             /\ Customers(state') = Append(Customers(state), state["current_customer"])
             /\ calls' # <<>>
             /\ calls'[1] \in {"exit_H_CUST", "enter_final"}
             /\ calls' \in {<<"exit_H_CUST">>, <<"enter_final">>} => ~Open(state')
       /\ (calls' # <<>> /\ calls'[1] \in {"exit_H_CUST", "enter_final"} /\ ~Open(state)) =>
             Customers(state') = Customers(state)
       /\ (RowRead /\ action = "H_CUST" /\ fsm(action, Last(rows')).err = NoError) =>
             /\ calls'[1] = "exit_H_CUST"
             /\ Open(state) => Len(Customers(state')) = Len(Customers(state)) + 1
       /\ pc' = "final" /\ pc = "read" =>
             /\ calls' = <<"enter_final">>
             /\ ~Open(state')
             /\ Open(state) => Len(Customers(state')) = Len(Customers(state)) + 1]_vars

C14_Witness ==
    /\ pc = "final"
    /\ calls = <<"enter_final">>
    /\ Len(Customers(state)) = 2
    /\ ~Open(state)
    /\ NumOpened = 2

\* a header row has set the extras
HasExtras(st) == "append_to_cust" \in DOMAIN st

ExtrasOf(data) == <<<<"insert_date", data[8]>>, <<"insert_time", data[9]>>>>

\* C15 (as claimed): an H row read after an earlier header overwrites the extras,
\* so that rows parsed after it carry its insert_date and insert_time.
C15_Claim ==
    [][(RowRead /\ HasExtras(state) /\ IsHeader(Last(rows')) /\ Len(Last(rows')) >= 9) =>
          /\ err' = NoError
          /\ state'["append_to_cust"] = ExtrasOf(Last(rows'))
          /\ state'["append_to_ref"] = ExtrasOf(Last(rows'))]_vars

\* C15 (amended): the extras a header row set stay as they are for the rest of the
\* run and every customer and reference carries them; an H row read later never
\* overwrites them: it is refused by fsm with the invalid-transition error, or,
\* after a MEDIUM row, only starts __final__.
C15_Amended ==
    [][HasExtras(state) =>
          /\ HasExtras(state')
          /\ state'["append_to_cust"] = state["append_to_cust"]
          /\ state'["append_to_ref"] = state["append_to_ref"]
          /\ (RowRead /\ IsHeader(Last(rows'))) =>
                IF action = "MEDIUM" THEN pc' = "final"
                ELSE err' = Raise("RuntimeError", "fsm") /\ state' = state
          /\ LET all == AllCustomers(state')
                 extras == PairsAsDict(state'["append_to_cust"])
             IN \A k \in 1..Len(all) :
                   /\ all[k]["insert_date"] = extras["insert_date"]
                   /\ all[k]["insert_time"] = extras["insert_time"]
                   /\ \A m \in 1..Len(References(all[k])) :
                         /\ all[k]["references"][m]["insert_date"] = extras["insert_date"]
                         /\ all[k]["references"][m]["insert_time"] = extras["insert_time"]]_vars

C15_Witness ==
    /\ err = Raise("RuntimeError", "fsm")
    /\ Last(rows) = HRow(D2, T2)
    /\ state["append_to_cust"] = ExtrasOf(HRow(D1, T1))
    /\ Customers(state) # <<>>
    /\ Open(state)
    /\ state["current_customer"]["insert_date"] = D1

\* C16: from MEDIUM the next row, whatever its first cell, and even without one,
\* takes the machine to __final__, whose enter callback runs once and flushes; the
\* loop has ended: no further row is read and the processing state stays as it is.
C16_Terminal ==
    [][/\ (RowRead /\ action = "MEDIUM") =>
             /\ pc' = "final"
             /\ err' = NoError
             /\ calls' = <<"enter_final">>
             /\ ~Open(state')
             /\ AllCustomers(state') = AllCustomers(state)
       /\ pc = "final" =>
             /\ rows' = rows
             /\ state' = state
             /\ pc' \in {"done", "error"}
       /\ pc \in {"done", "error"} => UNCHANGED vars]_vars

C16_Witness ==
    /\ pc = "done"
    /\ Len(rows) >= 2
    /\ rows[Len(rows) - 1] = <<Spell["MEDIUM"]>>
    /\ Last(rows) = <<>>
    /\ calls = <<>>
    /\ Len(Customers(state)) = 1
    /\ Len(Inserts(output)) = 2

\* C17 (as claimed): in __initial__ a row whose first cell is not H keeps the
\* machine in __initial__ and the processing state as it is, and raises no error.
C17_Claim ==
    [][(RowRead /\ action = "__initial__" /\ Last(rows') # <<>>
                /\ Token(Last(rows')) # Spell["H"]) =>
          /\ action' = "__initial__"
          /\ state' = state
          /\ err' = NoError
          /\ pc' = "read"]_vars

\* C19: the finalized customers stay as they are and where they are: customers
\* only grows at its end.
C19_Finalized ==
    [][/\ IsPrefix(Customers(state), Customers(state'))
       /\ Len(Customers(state')) <= Len(Customers(state)) + 1]_vars

C19_Witness ==
    /\ pc = "read"
    /\ action = "REF"
    /\ Len(Customers(state)) = 1
    /\ Open(state)
    /\ References(state["current_customer"]) # <<>>
    /\ References(Customers(state)[1]) = <<>>

====
